---- MODULE Spec2Model ----
(***************************************************************************)
(* Model of the packet decoding subsystem of hybrid-engine-ui              *)
(* (src/packet_spec.py): the header decoder, the payload length resolver,  *)
(* the message decoder and the legacy serial frame decoder.                *)
(*                                                                         *)
(* Python values are modelled as records tagged with their Python type in  *)
(* the field t, so that an enumeration member (t = "ActuatorState") is     *)
(* never equal to the raw integer it was built from (t = "int") nor to a   *)
(* one-element tuple (t = "tuple").  A call ends in a record               *)
(* [status, error, value]: status "ok" with the returned value (None       *)
(* included), or status "raise" with the exception's type in error.        *)
(*                                                                         *)
(* Python integers are unbounded.  A value unpacked from a 4-byte field    *)
(* can exceed the model checker's integers, so it is kept exactly as its   *)
(* two 16-bit halves, U32(hi, lo) = hi * 65536 + lo; values of 1-byte and  *)
(* 2-byte fields are plain naturals.                                       *)
(***************************************************************************)
EXTENDS Integers, Sequences, FiniteSets, TLC

\* the decoders' caller
VARIABLES pc, call, result

\* the main window (src/main_window/data_handlers.py): its plots, valves,
\* sensor labels, value labels and log, the heartbeat counter with its mutex
\* and the connection display
VARIABLES plots, valves, sensors, value_labels, log,
          heartbeat_timeout, heartbeat_mutex, connection_status

\* the thread that dispatches decoded packets, the packet it last
\* dispatched, how many it has dispatched, and the timer thread
VARIABLES dispatch_pc, dispatched, n_dispatched, timer_pc

\* history: whether a reset has run, and the decrements since the last one
VARIABLES reset_seen, ticks_since_reset

decoder_vars == <<pc, call, result>>
window_vars == <<plots, valves, sensors, value_labels, log,
                 heartbeat_timeout, heartbeat_mutex, connection_status>>
thread_vars == <<dispatch_pc, dispatched, n_dispatched, timer_pc>>
history_vars == <<reset_seen, ticks_since_reset>>

vars == <<pc, call, result, plots, valves, sensors, value_labels, log,
          heartbeat_timeout, heartbeat_mutex, connection_status,
          dispatch_pc, dispatched, n_dispatched, timer_pc,
          reset_seen, ticks_since_reset>>

----------------------------------------------------------------------------
(* Bounds of the explored inputs.                                          *)

\* header bytes are drawn from 0..MaxHeaderByte and 255
MaxHeaderByte == 10
\* header buffers have 0..MaxHeaderLen bytes
MaxHeaderLen == 2
\* message payloads have 0..MaxPayloadLen bytes
MaxPayloadLen == 10
\* serial frames have up to 26 + MaxFrameExtra bytes
MaxFrameExtra == 1
\* timestamps are drawn from 0..MaxTimestamp
MaxTimestamp == 1
\* at most MaxPackets packets are dispatched to the window
MaxPackets == 1
\* the timer stops once the heartbeat counter has reached -MaxMissed
MaxMissed == 1

----------------------------------------------------------------------------
(* Python values.                                                          *)

PyInt(n) == [t |-> "int", v |-> n]
Tuple1(n) == [t |-> "tuple", v |-> n]
Member(enum, n) == [t |-> enum, v |-> n]
None == [t |-> "NoneType", v |-> 0]

Ok(v) == [status |-> "ok", error |-> "", value |-> v]
Raise(e) == [status |-> "raise", error |-> e, value |-> None]

\* the value domains of the enumerations
PacketTypeValues == {0, 1}
TelemetryPacketSubTypeValues == 0..9
ActuationRequestStatusValues == 0..3
ArmingStateValues == 0..4
WarningValues == {0, 1}
ActuatorStateValues == {0, 1}
AcknowledgementStatusValues == {0, 1, 2}

PacketType_CONTROL == Member("PacketType", 0)
PacketType_TELEMETRY == Member("PacketType", 1)

SubType_TEMPERATURE == Member("TelemetryPacketSubType", 0)
SubType_PRESSURE == Member("TelemetryPacketSubType", 1)
SubType_MASS == Member("TelemetryPacketSubType", 2)
SubType_ARMING_STATE == Member("TelemetryPacketSubType", 3)
SubType_ACT_STATE == Member("TelemetryPacketSubType", 4)
SubType_WARNING == Member("TelemetryPacketSubType", 5)
SubType_ACT_REQ == Member("TelemetryPacketSubType", 6)
SubType_ACT_ACK == Member("TelemetryPacketSubType", 7)
SubType_ARM_REQ == Member("TelemetryPacketSubType", 8)
SubType_ARM_ACK == Member("TelemetryPacketSubType", 9)

ActuatorState_OFF == Member("ActuatorState", 0)
ActuatorState_ON == Member("ActuatorState", 1)

\* Enum(value): the member with that value, or ValueError
EnumCall(enum, values, n) ==
    IF n \in values THEN Ok(Member(enum, n)) ELSE Raise("ValueError")

PacketHeader(type, sub_type) ==
    [t |-> "PacketHeader", type |-> type, sub_type |-> sub_type]

----------------------------------------------------------------------------
(* struct: little-endian unsigned fields without padding ("<" formats).    *)
(* A format is the sequence of its fields' sizes: "<IIB" is <<4, 4, 1>>.   *)

RECURSIVE CalcSize(_)
CalcSize(fmt) == IF fmt = <<>> THEN 0 ELSE Head(fmt) + CalcSize(Tail(fmt))

RECURSIVE FromLittleEndian(_)
FromLittleEndian(bytes) ==
    IF bytes = <<>> THEN 0
    ELSE Head(bytes) + 256 * FromLittleEndian(Tail(bytes))

\* the exact value hi * 65536 + lo of a 4-byte field
U32(hi, lo) == [hi |-> hi, lo |-> lo]

\* one unsigned field: "B" and "H" give a natural, "I" gives a U32
UnpackField(bytes) ==
    IF Len(bytes) = 4
    THEN U32(FromLittleEndian(SubSeq(bytes, 3, 4)), FromLittleEndian(SubSeq(bytes, 1, 2)))
    ELSE FromLittleEndian(bytes)

RECURSIVE UnpackFields(_, _)
UnpackFields(fmt, buf) ==
    IF fmt = <<>> THEN <<>>
    ELSE <<UnpackField(SubSeq(buf, 1, Head(fmt)))>>
         \o UnpackFields(Tail(fmt), SubSeq(buf, Head(fmt) + 1, Len(buf)))

\* struct.unpack(fmt, buf): the buffer must have exactly the format's size
StructUnpack(fmt, buf) ==
    IF Len(buf) # CalcSize(fmt) THEN Raise("struct.error")
    ELSE [status |-> "ok", error |-> "", value |-> UnpackFields(fmt, buf)]

\* struct.unpack_from(fmt, buf, offset): at least the format's size after offset
StructUnpackFrom(fmt, buf, offset) ==
    IF Len(buf) - offset < CalcSize(fmt) THEN Raise("struct.error")
    ELSE [status |-> "ok", error |-> "",
          value |-> UnpackFields(fmt, SubSeq(buf, offset + 1, Len(buf)))]

----------------------------------------------------------------------------
(* parse_packet_header                                                     *)

\* mutant: the subtype code is taken as it is, without a domain check
parse_packet_header_SubTypeUnchecked(header_bytes) ==
    LET u == StructUnpack(<<1, 1>>, header_bytes) IN
    IF u.status # "ok" THEN Raise(u.error)
    ELSE LET ty == EnumCall("PacketType", PacketTypeValues, u.value[1]) IN
         IF ty.status # "ok" THEN Raise(ty.error)
         ELSE Ok(PacketHeader(ty.value, Member("TelemetryPacketSubType", u.value[2])))

parse_packet_header(header_bytes) ==
    LET u == StructUnpack(<<1, 1>>, header_bytes) IN
    IF u.status # "ok" THEN Raise(u.error)
    ELSE LET ty == EnumCall("PacketType", PacketTypeValues, u.value[1])
             st == EnumCall("TelemetryPacketSubType",
                            TelemetryPacketSubTypeValues, u.value[2])
         IN IF ty.status # "ok" THEN Raise(ty.error)
            ELSE IF st.status # "ok" THEN Raise(st.error)
            ELSE Ok(PacketHeader(ty.value, st.value))

----------------------------------------------------------------------------
(* packet_message_bytes_length                                             *)

\* mutant: ACT_STATE shares the 5-byte row of ARMING_STATE and WARNING
packet_message_bytes_length_ActState5(header) ==
    IF header.type = PacketType_TELEMETRY
    THEN IF header.sub_type \in {SubType_TEMPERATURE, SubType_PRESSURE, SubType_MASS}
         THEN Ok(PyInt(9))
         ELSE IF header.sub_type \in {SubType_ARMING_STATE, SubType_ACT_STATE, SubType_WARNING}
         THEN Ok(PyInt(5))
         ELSE Ok(None)
    ELSE Ok(None)

packet_message_bytes_length(header) ==
    IF header.type = PacketType_TELEMETRY
    THEN IF header.sub_type \in {SubType_TEMPERATURE, SubType_PRESSURE, SubType_MASS}
         THEN Ok(PyInt(9))
         ELSE IF header.sub_type = SubType_ACT_STATE THEN Ok(PyInt(6))
         ELSE IF header.sub_type \in {SubType_ARMING_STATE, SubType_WARNING}
         THEN Ok(PyInt(5))
         ELSE Ok(None)
    ELSE Ok(None)

----------------------------------------------------------------------------
(* parse_packet_message: one operator per case of the match.               *)

ParseActuationRequest(message_bytes) ==
    \* struct.unpack("<BB". message_bytes): the "." makes this an attribute
    \* lookup on the format string, which fails before any byte is read
    Raise("AttributeError")

ParseActuationAcknowledgement(message_bytes) ==
    LET u == StructUnpack(<<1, 1>>, message_bytes) IN
    IF u.status # "ok" THEN Raise(u.error)
    ELSE Ok([t |-> "ActuationAcknowledgement",
             id |-> PyInt(u.value[1]), status |-> PyInt(u.value[2])])

ParseArmingRequest(message_bytes) ==
    \* level = struct.unpack("<B", ...) keeps the whole 1-tuple
    LET u == StructUnpack(<<1>>, message_bytes) IN
    IF u.status # "ok" THEN Raise(u.error)
    ELSE Ok([t |-> "ArmingRequest", level |-> Tuple1(u.value[1])])

ParseArmingAcknowledgement(message_bytes) ==
    LET u == StructUnpack(<<1>>, message_bytes) IN
    IF u.status # "ok" THEN Raise(u.error)
    ELSE Ok([t |-> "ArmingAcknowledgement", status |-> Tuple1(u.value[1])])

ParseTemperature(message_bytes) ==
    LET u == StructUnpack(<<4, 4, 1>>, message_bytes) IN
    IF u.status # "ok" THEN Raise(u.error)
    ELSE Ok([t |-> "TemperaturePacket", time_since_power |-> PyInt(u.value[1]),
             temperature |-> PyInt(u.value[2]), id |-> PyInt(u.value[3])])

\* mutant: the PRESSURE case builds the MASS case's packet
ParsePressure_AsMass(message_bytes) ==
    LET u == StructUnpack(<<4, 4, 1>>, message_bytes) IN
    IF u.status # "ok" THEN Raise(u.error)
    ELSE Ok([t |-> "MassPacket", time_since_power |-> PyInt(u.value[1]),
             mass |-> PyInt(u.value[2]), id |-> PyInt(u.value[3])])

ParsePressure(message_bytes) ==
    LET u == StructUnpack(<<4, 4, 1>>, message_bytes) IN
    IF u.status # "ok" THEN Raise(u.error)
    ELSE Ok([t |-> "PressurePacket", time_since_power |-> PyInt(u.value[1]),
             pressure |-> PyInt(u.value[2]), id |-> PyInt(u.value[3])])

ParseMass(message_bytes) ==
    LET u == StructUnpack(<<4, 4, 1>>, message_bytes) IN
    IF u.status # "ok" THEN Raise(u.error)
    ELSE Ok([t |-> "MassPacket", time_since_power |-> PyInt(u.value[1]),
             mass |-> PyInt(u.value[2]), id |-> PyInt(u.value[3])])

ParseArmingState(message_bytes) ==
    LET u == StructUnpack(<<4, 1>>, message_bytes) IN
    IF u.status # "ok" THEN Raise(u.error)
    ELSE LET e == EnumCall("ArmingState", ArmingStateValues, u.value[2]) IN
         IF e.status # "ok" THEN Raise(e.error)
         ELSE Ok([t |-> "ArmingStatePacket",
                  time_since_power |-> PyInt(u.value[1]), state |-> e.value])

\* mutant: the two bytes after the time are unpacked as state, id
ParseActuatorState_StateFirst(message_bytes) ==
    LET u == StructUnpack(<<4, 1, 1>>, message_bytes) IN
    IF u.status # "ok" THEN Raise(u.error)
    ELSE LET e == EnumCall("ActuatorState", ActuatorStateValues, u.value[2]) IN
         IF e.status # "ok" THEN Raise(e.error)
         ELSE Ok([t |-> "ActuatorStatePacket",
                  time_since_power |-> PyInt(u.value[1]),
                  id |-> PyInt(u.value[3]), state |-> e.value])

ParseActuatorState(message_bytes) ==
    LET u == StructUnpack(<<4, 1, 1>>, message_bytes) IN
    IF u.status # "ok" THEN Raise(u.error)
    ELSE LET e == EnumCall("ActuatorState", ActuatorStateValues, u.value[3]) IN
         IF e.status # "ok" THEN Raise(e.error)
         ELSE Ok([t |-> "ActuatorStatePacket",
                  time_since_power |-> PyInt(u.value[1]),
                  id |-> PyInt(u.value[2]), state |-> e.value])

ParseWarning(message_bytes) ==
    LET u == StructUnpack(<<4, 1>>, message_bytes) IN
    IF u.status # "ok" THEN Raise(u.error)
    ELSE LET e == EnumCall("Warning", WarningValues, u.value[2]) IN
         IF e.status # "ok" THEN Raise(e.error)
         ELSE Ok([t |-> "WarningPacket",
                  time_since_power |-> PyInt(u.value[1]), type |-> e.value])

\* a match with no matching case falls through to the end of the function,
\* which returns None
parse_packet_message(header, message_bytes) ==
    IF header.type = PacketType_CONTROL
    THEN CASE header.sub_type = SubType_ACT_REQ -> ParseActuationRequest(message_bytes)
           [] header.sub_type = SubType_ACT_ACK -> ParseActuationAcknowledgement(message_bytes)
           [] header.sub_type = SubType_ARM_REQ -> ParseArmingRequest(message_bytes)
           [] header.sub_type = SubType_ARM_ACK -> ParseArmingAcknowledgement(message_bytes)
           [] OTHER -> Ok(None)
    ELSE IF header.type = PacketType_TELEMETRY
    THEN CASE header.sub_type = SubType_TEMPERATURE -> ParseTemperature(message_bytes)
           [] header.sub_type = SubType_PRESSURE -> ParsePressure(message_bytes)
           [] header.sub_type = SubType_MASS -> ParseMass(message_bytes)
           [] header.sub_type = SubType_ARMING_STATE -> ParseArmingState(message_bytes)
           [] header.sub_type = SubType_ACT_STATE -> ParseActuatorState(message_bytes)
           [] header.sub_type = SubType_WARNING -> ParseWarning(message_bytes)
           [] OTHER -> Ok(None)
    ELSE Ok(None)

----------------------------------------------------------------------------
(* parse_serial_packet                                                     *)

\* a calibrated reading: the conversion applied and the raw code it was
\* applied to (the conversions are total on 0..65535 and opaque here)
Conversion(fn, raw) == [t |-> "float", fn |-> fn, raw |-> raw]

\* bin(n) without its prefix, most significant digit first
RECURSIVE BinDigits(_)
BinDigits(n) ==
    IF n < 2 THEN <<IF n = 0 THEN "0" ELSE "1">>
    ELSE BinDigits(n \div 2) \o <<IF n % 2 = 0 THEN "0" ELSE "1">>

\* '{:0<width>b}'.format(n): padded with zeros on the left to at least width
RECURSIVE ZeroPad(_, _)
ZeroPad(digits, width) ==
    IF Len(digits) >= width THEN digits ELSE ZeroPad(<<"0">> \o digits, width)

FormatBinary(n, width) == ZeroPad(BinDigits(n), width)

\* s[::-1]
Reverse(s) == [i \in 1..Len(s) |-> s[Len(s) + 1 - i]]

\* status//pow(2,16) of a 4-byte field
FloorDiv65536(w) == w.hi

\* mutant: only the low 12 bits of the upper half are formatted
StatusString_Low12Bits(status) ==
    Reverse(FormatBinary(FloorDiv65536(status) % 4096, 12))

\* '{:012b}'.format(status//pow(2,16))[::-1]
StatusString(status) == Reverse(FormatBinary(FloorDiv65536(status), 12))

\* the fields of SerialDataPacket in declaration order, as asdict yields them
SerialFields ==
    << [name |-> "m1", first |-> "m", last |-> 1],
       [name |-> "m2", first |-> "m", last |-> 2],
       [name |-> "p1", first |-> "p", last |-> 1],
       [name |-> "p2", first |-> "p", last |-> 2],
       [name |-> "p3", first |-> "p", last |-> 3],
       [name |-> "p4", first |-> "p", last |-> 4],
       [name |-> "t1", first |-> "t", last |-> 1],
       [name |-> "t2", first |-> "t", last |-> 2],
       [name |-> "t3", first |-> "t", last |-> 3],
       [name |-> "status", first |-> "s", last |-> 0] >>

\* SerialDataPacket(...) from the ten unpacked integers; the first unpacked
\* field is m2 and the second is m1
MakeSerialDataPacket(u) ==
    [t |-> "SerialDataPacket",
     m1 |-> Conversion("div1000", u[2]),
     m2 |-> Conversion("loadCell2Conversion", u[1]),
     p1 |-> Conversion("pressureConversion", u[3]),
     p2 |-> Conversion("pressureConversion", u[4]),
     p3 |-> Conversion("pressureConversion", u[5]),
     p4 |-> Conversion("pressureConversion", u[6]),
     t1 |-> Conversion("thermistorConversion", u[7]),
     t2 |-> Conversion("thermistor2Conversion", u[8]),
     t3 |-> Conversion("thermocouple3Conversion", u[9]),
     status |-> StatusString(u[10])]

FieldValue(packet, name) ==
    CASE name = "m1" -> packet.m1 [] name = "m2" -> packet.m2
      [] name = "p1" -> packet.p1 [] name = "p2" -> packet.p2
      [] name = "p3" -> packet.p3 [] name = "p4" -> packet.p4
      [] name = "t1" -> packet.t1 [] name = "t2" -> packet.t2
      [] name = "t3" -> packet.t3

\* mutant: the default-open set is ignored
ValveState_NoInversion(index, bit, default_open_valves) ==
    IF bit = "0" THEN ActuatorState_OFF ELSE ActuatorState_ON

\* the state of valve index for its status character
ValveState(index, bit, default_open_valves) ==
    IF index \in default_open_valves
    THEN (IF bit = "0" THEN ActuatorState_ON ELSE ActuatorState_OFF)
    ELSE (IF bit = "0" THEN ActuatorState_OFF ELSE ActuatorState_ON)

\* for index, bit in enumerate(val): one ACT_STATE pair per character
ValveEvents(val, timestamp, default_open_valves) ==
    [k \in 1..Len(val) |->
        [header |-> PacketHeader(PacketType_TELEMETRY, SubType_ACT_STATE),
         message |-> [t |-> "ActuatorStatePacket",
                      time_since_power |-> PyInt(timestamp),
                      id |-> PyInt(k - 1),
                      state |-> ValveState(k - 1, val[k], default_open_valves)]]]

\* the pairs one field of the packet appends to packet_list
FieldEvents(packet, f, timestamp, default_open_valves) ==
    IF f.first = "m"
    THEN << [header |-> PacketHeader(PacketType_TELEMETRY, SubType_MASS),
             message |-> [t |-> "MassPacket", time_since_power |-> PyInt(timestamp),
                          mass |-> FieldValue(packet, f.name), id |-> PyInt(f.last)]] >>
    ELSE IF f.first = "p"
    THEN << [header |-> PacketHeader(PacketType_TELEMETRY, SubType_PRESSURE),
             message |-> [t |-> "PressurePacket", time_since_power |-> PyInt(timestamp),
                          pressure |-> FieldValue(packet, f.name), id |-> PyInt(f.last)]] >>
    ELSE IF f.first = "t"
    THEN << [header |-> PacketHeader(PacketType_TELEMETRY, SubType_TEMPERATURE),
             message |-> [t |-> "TemperaturePacket", time_since_power |-> PyInt(timestamp),
                          temperature |-> FieldValue(packet, f.name), id |-> PyInt(f.last)]] >>
    ELSE ValveEvents(packet.status, timestamp, default_open_valves)

RECURSIVE Explode(_, _, _, _)
Explode(packet, fields, timestamp, default_open_valves) ==
    IF fields = <<>> THEN <<>>
    ELSE FieldEvents(packet, Head(fields), timestamp, default_open_valves)
         \o Explode(packet, Tail(fields), timestamp, default_open_valves)

parse_serial_packet(data, timestamp, default_open_valves) ==
    LET u == StructUnpackFrom(<<2, 2, 2, 2, 2, 2, 2, 2, 2, 4>>, data, 4) IN
    IF u.status # "ok" THEN Raise(u.error)
    ELSE LET parsed_packet == MakeSerialDataPacket(u.value) IN
         Ok([t |-> "tuple", parsed_packet |-> parsed_packet,
             packet_list |-> Explode(parsed_packet, SerialFields,
                                     timestamp, default_open_valves)])

----------------------------------------------------------------------------
(* The inputs the callers are explored with.                               *)

\* struct.pack of one little-endian unsigned field of n bytes (the sender)
ToLittleEndian(v, n) == [i \in 1..n |-> (v \div (256 ^ (i - 1))) % 256]

\* struct.pack of a little-endian 4-byte field
ToLittleEndian32(w) == ToLittleEndian(w.lo, 2) \o ToLittleEndian(w.hi, 2)

Zeros(n) == [i \in 1..n |-> 0]

HeaderByteVals == 0..MaxHeaderByte \cup {255}

HeaderInputs == UNION {[1..n -> HeaderByteVals] : n \in 0..MaxHeaderLen}

Headers ==
    {PacketHeader(Member("PacketType", a), Member("TelemetryPacketSubType", b)) :
        a \in PacketTypeValues, b \in TelemetryPacketSubTypeValues}

TimeVals == {U32(0, 0), U32(0, 5), U32(0, 513), U32(0, 1000), U32(65535, 65535)}
Byte5Vals == {0, 1, 2, 4, 5, 250}
Byte6Vals == {0, 1, 2}
HighByteVals == {<<0, 0>>, <<254, 255>>}
Byte9Vals == {2, 255}

\* payloads of every length 0..MaxPayloadLen: a u32, four bytes and one byte,
\* cut or padded to the length
Payloads ==
    {SubSeq(ToLittleEndian32(tm) \o <<b5, b6>> \o hi \o <<b9>> \o Zeros(MaxPayloadLen), 1, n) :
        tm \in TimeVals, b5 \in Byte5Vals, b6 \in Byte6Vals,
        hi \in HighByteVals, b9 \in Byte9Vals, n \in 0..MaxPayloadLen}

SensorBases == {0, 65527}
StatusHighVals == {2 ^ i : i \in 0..15} \cup {0, 1365, 2730, 4095, 4097, 32769, 65535}
StatusLowVals == {0, 65535}
FramePrefixes == {<<0, 0, 0, 0>>, <<255, 1, 2, 3>>}
FrameLens == {0, 3, 25} \cup (26..(26 + MaxFrameExtra))
DefaultOpenSets == {{}, {0}, {0, 5, 11}, 0..11}
Timestamps == 0..MaxTimestamp

\* the legacy frame a sender builds: 4 leading bytes, nine u16 (base, base+1,
\* ...), the u32 status word
FullFrame(prefix, base, status) ==
    prefix
    \o ToLittleEndian(base, 2) \o ToLittleEndian(base + 1, 2)
    \o ToLittleEndian(base + 2, 2) \o ToLittleEndian(base + 3, 2)
    \o ToLittleEndian(base + 4, 2) \o ToLittleEndian(base + 5, 2)
    \o ToLittleEndian(base + 6, 2) \o ToLittleEndian(base + 7, 2)
    \o ToLittleEndian(base + 8, 2) \o ToLittleEndian32(status)

Frames ==
    {SubSeq(FullFrame(prefix, base, U32(hi, lo)) \o Zeros(MaxFrameExtra), 1, n) :
        prefix \in FramePrefixes, base \in SensorBases,
        hi \in StatusHighVals, lo \in StatusLowVals, n \in FrameLens}

----------------------------------------------------------------------------
(* The main window's data handlers (src/main_window/data_handlers.py).     *)
(* The handlers are computed on a record w of the window's containers and  *)
(* the exception, if any, that ended the handler (error).                  *)

\* the valves list has one entry per id 0..NumValves-1 (the ids the log
\* lines are written for go up to 14)
NumValves == 15
\* the sensor labels: t at 0..3, m1 at 4, p at 5..8, m2 at 9
NumSensors == 10

\* a plot is keyed by its kind and channel id: "t2" is <<"t", 2>>
PlotKeys ==
    {<<"t", i>> : i \in 1..4} \cup {<<"p", i>> : i \in 1..4} \cup {<<"m", i>> : i \in 1..2}

\* the plots the older window builds: no plot per mass channel, but
\* "tank_mass" and "engine_thrust"
WidgetPlotKeys ==
    {<<"t", i>> : i \in 1..4} \cup {<<"p", i>> : i \in 1..4}
    \cup {<<"tank_mass", 0>>, <<"engine_thrust", 0>>}

\* the sets of plots the window may have been built with
PlotKeySets == {PlotKeys, WidgetPlotKeys}

NoText == [value |-> None, unit |-> ""]

\* a line of the log: its text, the number formatted into it, the state
LogLine(text, n, state) == [text |-> text, n |-> n, state |-> state]
SeparatorLine == LogLine("////////////////////////////", 0, None)

Failing(w, e) == [w EXCEPT !.error = e]

write_to_log(w, line) == [w EXCEPT !.log = Append(@, line)]

\* self.valves[id].changeState(state)
ChangeValveState(w, id, state) ==
    IF id \in 0..(NumValves - 1) THEN [w EXCEPT !.valves[id] = state]
    ELSE Failing(w, "IndexError")

turn_on_valve(w, id) == ChangeValveState(w, id, "OPEN")

turn_off_valve(w, id) == ChangeValveState(w, id, "CLOSED")

\* self.sensors[id].changeReading(newReading); a negative index counts from
\* the end of the list
change_new_reading(w, id, newReading) ==
    IF id \in 0..(NumSensors - 1) THEN [w EXCEPT !.sensors[id] = newReading]
    ELSE IF id \in (-NumSensors)..(-1)
    THEN [w EXCEPT !.sensors[id + NumSensors] = newReading]
    ELSE Failing(w, "IndexError")

\* the lines written for an actuator id
ActuatorLogLines(id, state) ==
    CASE id = 0 -> <<SeparatorLine, LogLine("Fire Valve", id, state)>>
      [] id = 13 -> <<LogLine("Quick Disconnect", id, state)>>
      [] id = 14 -> <<LogLine("Igniter", id, state), SeparatorLine>>
      [] OTHER -> <<LogLine("XV", id, state)>>

update_act_state(w, message) ==
    \* message.state and message.id of a message that has none (None, for
    \* a header without a layout) raise AttributeError
    IF message.t # "ActuatorStatePacket" THEN Failing(w, "AttributeError")
    ELSE LET w1 == CASE message.state = ActuatorState_OFF -> turn_off_valve(w, message.id.v)
                     [] message.state = ActuatorState_ON -> turn_on_valve(w, message.id.v)
                     [] OTHER -> w
         IN IF w1.error # "" THEN w1
            ELSE [w1 EXCEPT !.log = @ \o ActuatorLogLines(message.id.v, message.state)]

\* one case of plot_point: the point is appended to plots[key], the value
\* label, if there is one, is set, and the sensor label is changed
PlotSensor(w, key, label_key, time, value, unit, sensor_index) ==
    IF key \notin DOMAIN w.plots THEN Failing(w, "KeyError")
    ELSE LET w1 == [w EXCEPT !.plots[key] = Append(@, [x |-> time, y |-> value])]
             w2 == IF label_key \in DOMAIN w1.value_labels
                   THEN [w1 EXCEPT !.value_labels[label_key] = [value |-> value, unit |-> unit]]
                   ELSE w1
         IN change_new_reading(w2, sensor_index, [value |-> value, unit |-> unit])

\* mutant: the CONTROL case is not set apart, the subtype alone decides
plot_point_TypeUnchecked(w, header, message) ==
    IF header.type \in {PacketType_CONTROL, PacketType_TELEMETRY}
    THEN CASE header.sub_type = SubType_TEMPERATURE ->
                IF message.t # "TemperaturePacket" THEN Failing(w, "AttributeError")
                ELSE PlotSensor(w, <<"t", message.id.v>>, <<"t", message.id.v>>,
                                message.time_since_power, message.temperature, "C",
                                message.id.v - 1)
           [] header.sub_type = SubType_PRESSURE ->
                IF message.t # "PressurePacket" THEN Failing(w, "AttributeError")
                ELSE PlotSensor(w, <<"p", message.id.v>>, <<"p", message.id.v>>,
                                message.time_since_power, message.pressure, "psi",
                                message.id.v + 4)
           [] header.sub_type = SubType_MASS ->
                IF message.t # "MassPacket" THEN Failing(w, "AttributeError")
                ELSE PlotSensor(w, <<"m", message.id.v>>, <<"none", 0>>,
                                message.time_since_power, message.mass, "kg",
                                IF message.id.v = 1 THEN 4 ELSE 9)
           [] OTHER -> w
    ELSE w

plot_point(w, header, message) ==
    IF header.type = PacketType_CONTROL THEN w
    ELSE IF header.type = PacketType_TELEMETRY
    THEN CASE header.sub_type = SubType_TEMPERATURE ->
                IF message.t # "TemperaturePacket" THEN Failing(w, "AttributeError")
                ELSE PlotSensor(w, <<"t", message.id.v>>, <<"t", message.id.v>>,
                                message.time_since_power, message.temperature, "C",
                                message.id.v - 1)
           [] header.sub_type = SubType_PRESSURE ->
                IF message.t # "PressurePacket" THEN Failing(w, "AttributeError")
                ELSE PlotSensor(w, <<"p", message.id.v>>, <<"p", message.id.v>>,
                                message.time_since_power, message.pressure, "psi",
                                message.id.v + 4)
           [] header.sub_type = SubType_MASS ->
                IF message.t # "MassPacket" THEN Failing(w, "AttributeError")
                ELSE PlotSensor(w, <<"m", message.id.v>>, <<"none", 0>>,
                                message.time_since_power, message.mass, "kg",
                                IF message.id.v = 1 THEN 4 ELSE 9)
           [] OTHER -> w
    ELSE w

\* process_data up to its call of reset_heartbeat_timeout
process_data(w, header, message) ==
    CASE header.sub_type \in {SubType_TEMPERATURE, SubType_PRESSURE, SubType_MASS} ->
            plot_point(w, header, message)
      [] header.sub_type = SubType_ACT_STATE -> update_act_state(w, message)
      [] OTHER -> w

\* whether process_data goes on to reset_heartbeat_timeout
CallsReset(w, header, reset_heartbeat) ==
    header.sub_type = SubType_ACT_STATE /\ w.error = "" /\ reset_heartbeat

----------------------------------------------------------------------------
(* The state machine: a caller in pc = "idle" calls one of the decoders    *)
(* with some input; call records the call and result its outcome; the      *)
(* caller then takes the outcome and is idle again.                        *)

NoCall ==
    [op |-> "none", header_bytes |-> <<>>, header |-> None,
     message_bytes |-> <<>>, data |-> <<>>, timestamp |-> 0,
     default_open_valves |-> {}]

\* the plots that have a value label: the temperature and pressure ones
ValueLabelKeys == {k \in PlotKeys : k[1] \in {"t", "p"}}

\* the heartbeat counter the window may have been built with
InitialHeartbeats == {0, 6}

NoDispatch == [header |-> None, message |-> None, reset_heartbeat |-> FALSE, error |-> ""]

\* the window after construction, no packet dispatched and no tick run
WindowInit ==
    /\ \E keys \in PlotKeySets : plots = [k \in keys |-> <<>>]
    /\ valves = [i \in 0..(NumValves - 1) |-> "CLOSED"]
    /\ sensors = [i \in 0..(NumSensors - 1) |-> NoText]
    /\ value_labels = [k \in ValueLabelKeys |-> NoText]
    /\ log = <<>>
    /\ heartbeat_timeout \in InitialHeartbeats
    /\ heartbeat_mutex = "free"
    /\ connection_status = "NOT_CONNECTED"
    /\ dispatch_pc = "idle"
    /\ dispatched = NoDispatch
    /\ n_dispatched = 0
    /\ timer_pc = "idle"
    /\ reset_seen = FALSE
    /\ ticks_since_reset = 0

Init ==
    /\ pc = "idle"
    /\ call = NoCall
    /\ result = Ok(None)
    /\ WindowInit

CallParsePacketHeader ==
    /\ pc = "idle"
    /\ \E hb \in HeaderInputs :
          /\ call' = [NoCall EXCEPT !.op = "parse_packet_header", !.header_bytes = hb]
          /\ result' = parse_packet_header(hb)
    /\ pc' = "done"
    /\ UNCHANGED <<window_vars, thread_vars, history_vars>>

CallPacketMessageBytesLength ==
    /\ pc = "idle"
    /\ \E h \in Headers :
          /\ call' = [NoCall EXCEPT !.op = "packet_message_bytes_length", !.header = h]
          /\ result' = packet_message_bytes_length(h)
    /\ pc' = "done"
    /\ UNCHANGED <<window_vars, thread_vars, history_vars>>

CallParsePacketMessage ==
    /\ pc = "idle"
    /\ \E h \in Headers, mb \in Payloads :
          /\ call' = [NoCall EXCEPT !.op = "parse_packet_message",
                                    !.header = h, !.message_bytes = mb]
          /\ result' = parse_packet_message(h, mb)
    /\ pc' = "done"
    /\ UNCHANGED <<window_vars, thread_vars, history_vars>>

CallParseSerialPacket ==
    /\ pc = "idle"
    /\ \E d \in Frames, ts \in Timestamps, dov \in DefaultOpenSets :
          /\ call' = [NoCall EXCEPT !.op = "parse_serial_packet", !.data = d,
                                    !.timestamp = ts, !.default_open_valves = dov]
          /\ result' = parse_serial_packet(d, ts, dov)
    /\ pc' = "done"
    /\ UNCHANGED <<window_vars, thread_vars, history_vars>>

Return ==
    /\ pc = "done"
    /\ pc' = "idle"
    /\ call' = NoCall
    /\ result' = Ok(None)
    /\ UNCHANGED <<window_vars, thread_vars, history_vars>>

Next ==
    \/ CallParsePacketHeader
    \/ CallPacketMessageBytesLength
    \/ CallParsePacketMessage
    \/ CallParseSerialPacket
    \/ Return

Spec == Init /\ [][Next]_vars

----------------------------------------------------------------------------
(* The window's state machine.  One thread dispatches decoded (header,     *)
(* message) pairs to process_data; when process_data goes on to            *)
(* reset_heartbeat_timeout, that function runs statement by statement.     *)
(* The timer thread runs decrease_heartbeat on each tick, statement by     *)
(* statement.  heartbeat_mutex is "free" or names the thread holding it;   *)
(* lock() waits while it is held.                                          *)

\* payloads of the packets that reach the window
WindowPayloads ==
    { <<5, 0, 0, 0, 1, 1>>, <<5, 0, 0, 0, 0, 0>>, <<5, 0, 0, 0, 14, 0>>,
      <<232, 3, 0, 0, 250, 0, 0, 0, 2>>, <<232, 3, 0, 0, 250, 0, 0, 0, 5>> }

\* the (header, payload) inputs of the TCP path for which
\* parse_packet_message returns a message
TcpInputs ==
    {y \in Headers \X WindowPayloads : parse_packet_message(y[1], y[2]).status = "ok"}

\* the legacy frames that reach the window and the positions looked at in
\* the lists decoded from them
WindowFrames == {FullFrame(<<0, 0, 0, 0>>, 0, U32(65535, 0))}

WindowFramePositions == {1, 10, 23, 25}

SerialPacketList(frame) == parse_serial_packet(frame, 1, {0}).value.packet_list

\* the (frame, position) inputs of the serial path
SerialInputs ==
    {y \in WindowFrames \X WindowFramePositions : y[2] <= Len(SerialPacketList(y[1]))}

\* the window's containers as the handlers take them
Window ==
    [plots |-> plots, valves |-> valves, sensors |-> sensors,
     value_labels |-> value_labels, log |-> log, error |-> ""]

\* process_data(header, message, reset_heartbeat), up to its call of
\* reset_heartbeat_timeout
ProcessData(header, message, reset_heartbeat) ==
    LET w == process_data(Window, header, message) IN
    /\ plots' = w.plots
    /\ valves' = w.valves
    /\ sensors' = w.sensors
    /\ value_labels' = w.value_labels
    /\ log' = w.log
    /\ dispatched' = [header |-> header, message |-> message,
                      reset_heartbeat |-> reset_heartbeat, error |-> w.error]
    /\ dispatch_pc' = IF CallsReset(w, header, reset_heartbeat)
                      THEN "reset_lock" ELSE "return"

\* a decoded pair is handed to process_data
Dispatch ==
    /\ dispatch_pc = "idle"
    /\ n_dispatched < MaxPackets
    /\ \/ \E x \in TcpInputs, reset_heartbeat \in BOOLEAN :
             ProcessData(x[1], parse_packet_message(x[1], x[2]).value, reset_heartbeat)
       \/ \E x \in SerialInputs, reset_heartbeat \in BOOLEAN :
             ProcessData(SerialPacketList(x[1])[x[2]].header,
                         SerialPacketList(x[1])[x[2]].message, reset_heartbeat)
    /\ n_dispatched' = n_dispatched + 1
    /\ UNCHANGED <<heartbeat_timeout, heartbeat_mutex, connection_status, timer_pc>>
    /\ UNCHANGED <<decoder_vars, history_vars>>

\* mutant: lock() does not wait for the holder of the mutex
ResetLock_NoWait ==
    /\ dispatch_pc = "reset_lock"
    /\ heartbeat_mutex' = "dispatch"
    /\ dispatch_pc' = "reset_set"
    /\ UNCHANGED <<plots, valves, sensors, value_labels, log, heartbeat_timeout,
                   connection_status, dispatched, n_dispatched, timer_pc>>
    /\ UNCHANGED <<decoder_vars, history_vars>>

\* reset_heartbeat_timeout: self.heartbeat_mutex.lock()
ResetLock ==
    /\ dispatch_pc = "reset_lock"
    /\ heartbeat_mutex = "free"
    /\ heartbeat_mutex' = "dispatch"
    /\ dispatch_pc' = "reset_set"
    /\ UNCHANGED <<plots, valves, sensors, value_labels, log, heartbeat_timeout,
                   connection_status, dispatched, n_dispatched, timer_pc>>
    /\ UNCHANGED <<decoder_vars, history_vars>>

\* reset_heartbeat_timeout: self.heartbeat_timeout = 6
ResetSet ==
    /\ dispatch_pc = "reset_set"
    /\ heartbeat_timeout' = 6
    /\ reset_seen' = TRUE
    /\ ticks_since_reset' = 0
    /\ dispatch_pc' = "reset_show"
    /\ UNCHANGED <<plots, valves, sensors, value_labels, log, heartbeat_mutex,
                   connection_status, dispatched, n_dispatched, timer_pc>>
    /\ UNCHANGED decoder_vars

\* reset_heartbeat_timeout: update_udp_connection_display(CONNECTED)
ResetShow ==
    /\ dispatch_pc = "reset_show"
    /\ connection_status' = "CONNECTED"
    /\ dispatch_pc' = "reset_unlock"
    /\ UNCHANGED <<plots, valves, sensors, value_labels, log, heartbeat_timeout,
                   heartbeat_mutex, dispatched, n_dispatched, timer_pc>>
    /\ UNCHANGED <<decoder_vars, history_vars>>

\* reset_heartbeat_timeout: self.heartbeat_mutex.unlock()
ResetUnlock ==
    /\ dispatch_pc = "reset_unlock"
    /\ heartbeat_mutex' = "free"
    /\ dispatch_pc' = "return"
    /\ UNCHANGED <<plots, valves, sensors, value_labels, log, heartbeat_timeout,
                   connection_status, dispatched, n_dispatched, timer_pc>>
    /\ UNCHANGED <<decoder_vars, history_vars>>

\* process_data returns, or the exception leaves it
DispatchReturn ==
    /\ dispatch_pc = "return"
    /\ dispatch_pc' = "idle"
    /\ dispatched' = NoDispatch
    /\ UNCHANGED <<window_vars, n_dispatched, timer_pc>>
    /\ UNCHANGED <<decoder_vars, history_vars>>

\* decrease_heartbeat: self.heartbeat_mutex.lock()
TickLock ==
    /\ timer_pc = "idle"
    /\ heartbeat_timeout > -MaxMissed
    /\ heartbeat_mutex = "free"
    /\ heartbeat_mutex' = "timer"
    /\ timer_pc' = "tick_decrement"
    /\ UNCHANGED <<plots, valves, sensors, value_labels, log, heartbeat_timeout,
                   connection_status, dispatch_pc, dispatched, n_dispatched>>
    /\ UNCHANGED <<decoder_vars, history_vars>>

\* decrease_heartbeat: self.heartbeat_timeout -= 1
TickDecrement ==
    /\ timer_pc = "tick_decrement"
    /\ heartbeat_timeout' = heartbeat_timeout - 1
    /\ ticks_since_reset' = ticks_since_reset + 1
    /\ timer_pc' = "tick_check"
    /\ UNCHANGED <<plots, valves, sensors, value_labels, log, heartbeat_mutex,
                   connection_status, dispatch_pc, dispatched, n_dispatched, reset_seen>>
    /\ UNCHANGED decoder_vars

\* abs(x)
Abs(x) == IF x < 0 THEN -x ELSE x

\* decrease_heartbeat: if self.heartbeat_timeout <= 0: show CONNECTION_LOST
\* and log the seconds without a heartbeat
TickCheck ==
    /\ timer_pc = "tick_check"
    /\ IF heartbeat_timeout <= 0
       THEN /\ connection_status' = "CONNECTION_LOST"
            /\ log' = Append(log, LogLine("Heartbeat not found",
                                          Abs(heartbeat_timeout) + 1, None))
       ELSE UNCHANGED <<connection_status, log>>
    /\ timer_pc' = "tick_unlock"
    /\ UNCHANGED <<plots, valves, sensors, value_labels, heartbeat_timeout,
                   heartbeat_mutex, dispatch_pc, dispatched, n_dispatched>>
    /\ UNCHANGED <<decoder_vars, history_vars>>

\* decrease_heartbeat: self.heartbeat_mutex.unlock()
TickUnlock ==
    /\ timer_pc = "tick_unlock"
    /\ heartbeat_mutex' = "free"
    /\ timer_pc' = "idle"
    /\ UNCHANGED <<plots, valves, sensors, value_labels, log, heartbeat_timeout,
                   connection_status, dispatch_pc, dispatched, n_dispatched>>
    /\ UNCHANGED <<decoder_vars, history_vars>>

WindowNext ==
    \/ Dispatch
    \/ ResetLock
    \/ ResetSet
    \/ ResetShow
    \/ ResetUnlock
    \/ DispatchReturn
    \/ TickLock
    \/ TickDecrement
    \/ TickCheck
    \/ TickUnlock

WindowSpec == Init /\ [][WindowNext]_vars


----------------------------------------------------------------------------
(* Notation of the properties.                                             *)

\* the call whose outcome is in result
Called(op) == pc = "done" /\ call.op = op

Returned == result.status = "ok"
Failed(e) == result = Raise(e)

TelemetryHeader(code) ==
    PacketHeader(Member("PacketType", 1), Member("TelemetryPacketSubType", code))

\* the little-endian u32 at bytes i..i+3 (1-based) of a buffer
U32At(b, i) == U32(b[i + 2] + 256 * b[i + 3], b[i] + 256 * b[i + 1])

\* the message classes
MessageVariants ==
    {"TemperaturePacket", "PressurePacket", "MassPacket", "ArmingStatePacket",
     "ActuatorStatePacket", "WarningPacket", "ActuationRequest",
     "ActuationAcknowledgement", "ArmingRequest", "ArmingAcknowledgement"}

IsMessage(v) == v.t \in MessageVariants

\* the single variant assigned to a subtype code
VariantOfSubType(code) ==
    CASE code = 0 -> "TemperaturePacket"
      [] code = 1 -> "PressurePacket"
      [] code = 2 -> "MassPacket"
      [] code = 3 -> "ArmingStatePacket"
      [] code = 4 -> "ActuatorStatePacket"
      [] code = 5 -> "WarningPacket"
      [] code = 6 -> "ActuationRequest"
      [] code = 7 -> "ActuationAcknowledgement"
      [] code = 8 -> "ArmingRequest"
      [] code = 9 -> "ArmingAcknowledgement"

----------------------------------------------------------------------------
(* C1: for every 2-byte input (type_code, subtype_code),                   *)
(* parse_packet_header returns PacketHeader(PacketType(type_code),         *)
(* TelemetryPacketSubType(subtype_code)) when type_code is in {0, 1} and   *)
(* subtype_code is in 0..9, and otherwise fails with ValueError (the       *)
(* invalid-enum-value error) and returns no header.                        *)
C1_HeaderDecoder ==
    (Called("parse_packet_header") /\ Len(call.header_bytes) = 2) =>
        LET type_code == call.header_bytes[1]
            subtype_code == call.header_bytes[2]
        IN IF type_code \in {0, 1} /\ subtype_code \in 0..9
           THEN result = Ok([t |-> "PacketHeader",
                             type |-> [t |-> "PacketType", v |-> type_code],
                             sub_type |-> [t |-> "TelemetryPacketSubType",
                                           v |-> subtype_code]])
           ELSE Failed("ValueError")

\* header bytes [0x01, 0x09] decode to PacketHeader(TELEMETRY, ARM_ACK)
C1_Witness ==
    /\ Called("parse_packet_header")
    /\ call.header_bytes = <<1, 9>>
    /\ result = Ok(PacketHeader(PacketType_TELEMETRY, SubType_ARM_ACK))

----------------------------------------------------------------------------
(* C2: for every TELEMETRY header and every payload of the resolver's      *)
(* length, parse_packet_message returns the fields read little-endian at   *)
(* the documented offsets: TEMPERATURE, PRESSURE and MASS give             *)
(* time_since_power = bytes 0..3, value = bytes 4..7, id = byte 8;         *)
(* ACT_STATE gives time = bytes 0..3, id = byte 4, state = byte 5;         *)
(* ARMING_STATE and WARNING give time = bytes 0..3 and the enumeration     *)
(* member of byte 4.  A byte that is the value of no member has no member  *)
(* to give: the call then returns no message.                              *)
C2_Expected(sub, b) ==
    CASE sub = 0 -> Ok([t |-> "TemperaturePacket", time_since_power |-> PyInt(U32At(b, 1)),
                        temperature |-> PyInt(U32At(b, 5)), id |-> PyInt(b[9])])
      [] sub = 1 -> Ok([t |-> "PressurePacket", time_since_power |-> PyInt(U32At(b, 1)),
                        pressure |-> PyInt(U32At(b, 5)), id |-> PyInt(b[9])])
      [] sub = 2 -> Ok([t |-> "MassPacket", time_since_power |-> PyInt(U32At(b, 1)),
                        mass |-> PyInt(U32At(b, 5)), id |-> PyInt(b[9])])
      [] sub = 3 -> Ok([t |-> "ArmingStatePacket", time_since_power |-> PyInt(U32At(b, 1)),
                        state |-> [t |-> "ArmingState", v |-> b[5]]])
      [] sub = 4 -> Ok([t |-> "ActuatorStatePacket", time_since_power |-> PyInt(U32At(b, 1)),
                        id |-> PyInt(b[5]),
                        state |-> [t |-> "ActuatorState", v |-> b[6]]])
      [] sub = 5 -> Ok([t |-> "WarningPacket", time_since_power |-> PyInt(U32At(b, 1)),
                        type |-> [t |-> "Warning", v |-> b[5]]])

C2_EnumByteInDomain(sub, b) ==
    CASE sub = 3 -> b[5] \in 0..4
      [] sub = 4 -> b[6] \in {0, 1}
      [] sub = 5 -> b[5] \in {0, 1}
      [] OTHER -> TRUE

----------------------------------------------------------------------------
(* C3: for every CONTROL header with subtype ACT_REQ, ACT_ACK, ARM_REQ or  *)
(* ARM_ACK and every payload of the documented length (2, 2, 1, 1 bytes)   *)
(* whose enum bytes are in domain, parse_packet_message succeeds and       *)
(* returns the matching variant with scalar fields equal to the payload    *)
(* bytes: ActuationRequest{id = byte 0, state = byte 1},                   *)
(* ActuationAcknowledgement{id = byte 0, status = byte 1},                 *)
(* ArmingRequest{level = byte 0}, ArmingAcknowledgement{status = byte 0}.  *)

\* a scalar field (a plain integer or an enumeration member, not a tuple)
\* whose value is the byte
ScalarByte(f, byte) == f.t # "tuple" /\ f.v = byte

C3_DocumentedLength(sub) == IF sub \in {6, 7} THEN 2 ELSE 1

C3_EnumBytesInDomain(sub, b) ==
    CASE sub = 6 -> b[2] \in {0, 1}
      [] sub = 7 -> b[2] \in 0..3
      [] sub = 8 -> b[1] \in 0..4
      [] sub = 9 -> b[1] \in 0..2

C3_FieldsAreBytes(sub, m, b) ==
    CASE sub = 6 -> m.t = "ActuationRequest" /\ ScalarByte(m.id, b[1]) /\ ScalarByte(m.state, b[2])
      [] sub = 7 -> m.t = "ActuationAcknowledgement" /\ ScalarByte(m.id, b[1])
                    /\ ScalarByte(m.status, b[2])
      [] sub = 8 -> m.t = "ArmingRequest" /\ ScalarByte(m.level, b[1])
      [] sub = 9 -> m.t = "ArmingAcknowledgement" /\ ScalarByte(m.status, b[1])

C3_ControlLayout ==
    (/\ Called("parse_packet_message")
     /\ call.header.type = PacketType_CONTROL
     /\ call.header.sub_type.v \in 6..9
     /\ Len(call.message_bytes) = C3_DocumentedLength(call.header.sub_type.v)
     /\ C3_EnumBytesInDomain(call.header.sub_type.v, call.message_bytes)) =>
        /\ Returned
        /\ IsMessage(result.value)
        /\ C3_FieldsAreBytes(call.header.sub_type.v, result.value, call.message_bytes)

----------------------------------------------------------------------------
(* C4: every (header, message) pair the decoders produce is consistent:    *)
(* whenever parse_packet_message(header, payload) returns a message, and   *)
(* for every pair in the list parse_serial_packet returns, the message's   *)
(* variant is the single variant assigned to header.sub_type.              *)
C4_VariantMatchesHeader ==
    /\ (Called("parse_packet_message") /\ Returned /\ IsMessage(result.value)) =>
          result.value.t = VariantOfSubType(call.header.sub_type.v)
    /\ (Called("parse_serial_packet") /\ Returned) =>
          \A k \in DOMAIN result.value.packet_list :
              LET pair == result.value.packet_list[k] IN
              /\ IsMessage(pair.message)
              /\ pair.message.t = VariantOfSubType(pair.header.sub_type.v)

\* a PRESSURE header with a 9-byte payload yields a PressurePacket
C4_Witness ==
    /\ Called("parse_packet_message")
    /\ call.header = TelemetryHeader(1)
    /\ Returned
    /\ result.value.t = "PressurePacket"

----------------------------------------------------------------------------
(* C5: for every header for which packet_message_bytes_length returns a    *)
(* length L, parse_packet_message(header, payload) succeeds only if        *)
(* len(payload) = L; for every payload shorter or longer than L it fails   *)
(* with struct.error (the malformed-payload error) and returns no message. *)
C5_ExactLength ==
    (/\ Called("parse_packet_message")
     /\ packet_message_bytes_length(call.header).status = "ok"
     /\ packet_message_bytes_length(call.header).value.t = "int") =>
        LET L == packet_message_bytes_length(call.header).value.v IN
        /\ Returned => Len(call.message_bytes) = L
        /\ Len(call.message_bytes) # L => Failed("struct.error")

\* an ACT_STATE payload of 5 bytes, one short, fails
C5_Witness ==
    /\ Called("parse_packet_message")
    /\ call.header = TelemetryHeader(4)
    /\ Len(call.message_bytes) = 5
    /\ Failed("struct.error")

----------------------------------------------------------------------------
(* C6: for every variant that embeds an enum byte (ACT_STATE state in      *)
(* {0,1}; ARMING_STATE state in 0..4; WARNING type in {0,1}; ACT_REQ state *)
(* in {0,1}; ACT_ACK status in 0..3; ARM_REQ level in 0..4; ARM_ACK status *)
(* in 0..2) and every correct-length payload, parse_packet_message fails   *)
(* with ValueError (the invalid-enum-value error) when that byte is        *)
(* outside its domain, and whenever it succeeds the returned field is a    *)
(* member of the corresponding enumeration.                                *)
C6_HasEnum(h) ==
    \/ h.type.v = 1 /\ h.sub_type.v \in {3, 4, 5}
    \/ h.type.v = 0 /\ h.sub_type.v \in {6, 7, 8, 9}

C6_Length(sub) == CASE sub \in {3, 5} -> 5 [] sub = 4 -> 6 [] sub \in {6, 7} -> 2
                    [] sub \in {8, 9} -> 1

C6_EnumByte(sub, b) == CASE sub \in {3, 5} -> b[5] [] sub = 4 -> b[6]
                         [] sub \in {6, 7} -> b[2] [] sub \in {8, 9} -> b[1]

C6_EnumName(sub) ==
    CASE sub = 3 -> "ArmingState" [] sub = 4 -> "ActuatorState" [] sub = 5 -> "Warning"
      [] sub = 6 -> "ActuatorState" [] sub = 7 -> "ActuationRequestStatus"
      [] sub = 8 -> "ArmingState" [] sub = 9 -> "AcknowledgementStatus"

C6_EnumDomain(sub) ==
    CASE sub = 3 -> 0..4 [] sub = 4 -> {0, 1} [] sub = 5 -> {0, 1} [] sub = 6 -> {0, 1}
      [] sub = 7 -> 0..3 [] sub = 8 -> 0..4 [] sub = 9 -> 0..2

C6_EnumField(sub, m) ==
    CASE sub \in {3, 4, 6} -> m.state [] sub = 5 -> m.type
      [] sub \in {7, 9} -> m.status [] sub = 8 -> m.level

C6_EnumValidated ==
    (/\ Called("parse_packet_message")
     /\ C6_HasEnum(call.header)
     /\ Len(call.message_bytes) = C6_Length(call.header.sub_type.v)) =>
        LET sub == call.header.sub_type.v IN
        /\ C6_EnumByte(sub, call.message_bytes) \notin C6_EnumDomain(sub) =>
              Failed("ValueError")
        /\ (Returned /\ IsMessage(result.value)) =>
              /\ C6_EnumField(sub, result.value).t = C6_EnumName(sub)
              /\ C6_EnumField(sub, result.value).v \in C6_EnumDomain(sub)

----------------------------------------------------------------------------
(* C7: packet_message_bytes_length covers every header for which           *)
(* parse_packet_message has a payload layout, and returns exactly the      *)
(* number of bytes that layout consumes: 9 for TELEMETRY                   *)
(* TEMPERATURE/PRESSURE/MASS, 6 for TELEMETRY ACT_STATE, 5 for TELEMETRY   *)
(* ARMING_STATE/WARNING, 2 for CONTROL ACT_REQ/ACT_ACK and 1 for CONTROL   *)
(* ARM_REQ/ARM_ACK.                                                        *)
C7_HasLayout(h) ==
    \/ h.type.v = 1 /\ h.sub_type.v \in 0..5
    \/ h.type.v = 0 /\ h.sub_type.v \in 6..9

C7_LayoutLength(sub) ==
    CASE sub \in {0, 1, 2} -> 9 [] sub = 4 -> 6 [] sub \in {3, 5} -> 5
      [] sub \in {6, 7} -> 2 [] sub \in {8, 9} -> 1

C7_ResolverCoversDecoder ==
    (Called("packet_message_bytes_length") /\ C7_HasLayout(call.header)) =>
        result = Ok(PyInt(C7_LayoutLength(call.header.sub_type.v)))

----------------------------------------------------------------------------
(* C8: for every one of the 2 x 10 well-formed PacketHeader values and     *)
(* every payload, a call either returns a complete value or fails with an  *)
(* error, never neither: parse_packet_message never returns without a      *)
(* message, and packet_message_bytes_length fails with an                  *)
(* unresolved-length error for every header outside its table instead of   *)
(* returning no length.                                                    *)
C8_ValueOrError ==
    /\ Called("parse_packet_message") =>
          \/ Returned /\ IsMessage(result.value)
          \/ result.status = "raise"
    /\ Called("packet_message_bytes_length") =>
          \/ Returned /\ result.value.t = "int"
          \/ result.status = "raise"

----------------------------------------------------------------------------
(* The legacy frame's status field, read from the frame's bytes: the u32   *)
(* at offset 22 (1-based bytes 23..26), whose upper half is bytes 25, 26.  *)

StatusUpperHalf(data) == data[25] + 256 * data[26]

\* bit n (0 = least significant) of a natural
BitOf(x, n) == (x \div (2 ^ n)) % 2

\* the number of binary digits of x without leading zeros
BitLength(x) == Cardinality({k \in 0..15 : 2 ^ k <= x})

\* (subtype code, channel id) of the nine sensor events, in order
C9_SensorOrder ==
    << <<2, 1>>, <<2, 2>>, <<1, 1>>, <<1, 2>>, <<1, 3>>, <<1, 4>>,
       <<0, 1>>, <<0, 2>>, <<0, 3>> >>

\* nine sensor pairs in the fixed order, then ACT_STATE pairs with ids
\* 0, 1, 2, ... and every pair stamped with the caller's timestamp
C9_OrderedAndStamped(l, timestamp) ==
    /\ Len(l) >= 9
    /\ \A k \in 1..9 :
          /\ l[k].header = TelemetryHeader(C9_SensorOrder[k][1])
          /\ l[k].message.id = PyInt(C9_SensorOrder[k][2])
    /\ \A k \in 10..Len(l) :
          /\ l[k].header = TelemetryHeader(4)
          /\ l[k].message.id = PyInt(k - 10)
    /\ \A k \in 1..Len(l) : l[k].message.time_since_power = PyInt(timestamp)

C9_ValveCount(upper) == IF BitLength(upper) > 12 THEN BitLength(upper) ELSE 12

----------------------------------------------------------------------------
(* C10: in the output of parse_serial_packet, for every valve index i in   *)
(* 0..11 the ACT_STATE event with id i is determined by bit (16 + i) of    *)
(* the 32-bit status field and by membership of i in the default-open set: *)
(* if i is in the set, bit 0 gives ON and bit 1 gives OFF; otherwise bit 0 *)
(* gives OFF and bit 1 gives ON.                                           *)
C10_ExpectedState(bit, default_open) ==
    IF default_open
    THEN (IF bit = 0 THEN [t |-> "ActuatorState", v |-> 1] ELSE [t |-> "ActuatorState", v |-> 0])
    ELSE (IF bit = 0 THEN [t |-> "ActuatorState", v |-> 0] ELSE [t |-> "ActuatorState", v |-> 1])

C10_ValvePolarity ==
    (Called("parse_serial_packet") /\ Returned) =>
        LET l == result.value.packet_list IN
        \A i \in 0..11 :
            LET events == {k \in DOMAIN l : /\ l[k].header.sub_type = SubType_ACT_STATE
                                            /\ l[k].message.id = PyInt(i)}
            IN /\ Cardinality(events) = 1
               /\ \A k \in events :
                     l[k].message.state =
                        C10_ExpectedState(BitOf(StatusUpperHalf(call.data), i),
                                          i \in call.default_open_valves)

\* status upper half 0b000000000001 with valve 0 default-open: valve 0 is
\* OFF (bit 1, inverted) and valve 1 is OFF (bit 0, not default-open)
C10_Witness ==
    /\ Called("parse_serial_packet")
    /\ Returned
    /\ StatusUpperHalf(call.data) = 1
    /\ call.default_open_valves = {0}
    /\ result.value.packet_list[10].message.state = ActuatorState_OFF
    /\ result.value.packet_list[11].message.state = ActuatorState_OFF

----------------------------------------------------------------------------
(* C11: what one call of process_data changes.                             *)

\* the step in which process_data runs on a pair
DispatchStep == dispatch_pc = "idle" /\ dispatch_pc' # "idle"

\* process_data goes on to reset_heartbeat_timeout / does not
GoesOnToReset == dispatch_pc' = "reset_lock"

SensorSubTypes == {SubType_TEMPERATURE, SubType_PRESSURE, SubType_MASS}

IsSensorPacket(m) == m.t \in {"TemperaturePacket", "PressurePacket", "MassPacket"}

\* the plot key '<t|p|m><id>' of a sensor subtype and a message with an id
C11_PlotKey(sub_type, m) ==
    << (CASE sub_type = SubType_TEMPERATURE -> "t"
          [] sub_type = SubType_PRESSURE -> "p"
          [] sub_type = SubType_MASS -> "m"), m.id.v >>

C11_Reading(m) ==
    CASE m.t = "TemperaturePacket" -> m.temperature
      [] m.t = "PressurePacket" -> m.pressure
      [] m.t = "MassPacket" -> m.mass

\* one point (time_since_power, reading) is appended to the plot keyed by
\* the subtype and the id, every other plot is left as it was
C11_AppendsOnePoint(sub_type, m) ==
    /\ IsSensorPacket(m)
    /\ C11_PlotKey(sub_type, m) \in DOMAIN plots
    /\ plots' = [plots EXCEPT ![C11_PlotKey(sub_type, m)] =
                    Append(@, [x |-> m.time_since_power, y |-> C11_Reading(m)])]

\* valve message.id is OPEN when the state is ON and CLOSED when it is OFF,
\* every other valve is left as it was
C11_SetsValve(m) ==
    /\ m.t = "ActuatorStatePacket"
    /\ m.id.v \in DOMAIN valves
    /\ valves' = [valves EXCEPT ![m.id.v] =
                     IF m.state = ActuatorState_ON THEN "OPEN" ELSE "CLOSED"]

\* the log line of an actuator id: "Fire Valve" for 0, "Quick Disconnect"
\* for 13, "Igniter" for 14, "XV-<id>" otherwise, each with the state
C11_LogLine(m) ==
    LogLine((CASE m.id.v = 0 -> "Fire Valve"
               [] m.id.v = 13 -> "Quick Disconnect"
               [] m.id.v = 14 -> "Igniter"
               [] OTHER -> "XV"), m.id.v, m.state)

\* the lines appended to the log contain the line of the actuator's id
C11_AppendsLogLine(m) ==
    /\ m.t = "ActuatorStatePacket"
    /\ Len(log') > Len(log)
    /\ SubSeq(log', 1, Len(log)) = log
    /\ \E k \in (Len(log) + 1)..Len(log') : log'[k] = C11_LogLine(m)

C11_NothingChanges == UNCHANGED <<plots, valves, sensors, value_labels, log>>

----------------------------------------------------------------------------
(* C12: reset_heartbeat_timeout and decrease_heartbeat under the mutex.    *)

\* the thread is between its lock() and the end of its unlock()
InReset == dispatch_pc \in {"reset_set", "reset_show", "reset_unlock"}
InTick == timer_pc \in {"tick_decrement", "tick_check", "tick_unlock"}

\* the tick's check displays CONNECTION_LOST (and logs the missed seconds)
TickShowsLost ==
    /\ timer_pc = "tick_check"
    /\ timer_pc' = "tick_unlock"
    /\ connection_status' = "CONNECTION_LOST"
    /\ Len(log') = Len(log) + 1

\* the reset's assignment of the counter
ResetSetsCounter == dispatch_pc = "reset_set" /\ dispatch_pc' = "reset_show"

\* the two bodies are never inside the mutex together, the holder of the
\* mutex is the thread that is inside, and the mutex is free when neither is
C12_MutualExclusion ==
    /\ ~(InReset /\ InTick)
    /\ InReset <=> heartbeat_mutex = "dispatch"
    /\ InTick <=> heartbeat_mutex = "timer"
    /\ (~InReset /\ ~InTick) => heartbeat_mutex = "free"

\* at the end of a reset, the counter is the 6 it was set to and the display
\* is the CONNECTED it was given: no tick has run in between
C12_ResetIsWhole ==
    dispatch_pc = "reset_unlock" =>
        heartbeat_timeout = 6 /\ connection_status = "CONNECTED"

\* C12: in every interleaving of reset_heartbeat_timeout and
\* decrease_heartbeat, the two bodies exclude each other under
\* heartbeat_mutex and the mutex is free after each; every reset sets the
\* counter to 6 and leaves CONNECTED displayed; and once a reset has
\* occurred, a tick displays CONNECTION_LOST only if at least 6 ticks have
\* run since the most recent reset.
C12_HeartbeatUnderMutex ==
    /\ [](C12_MutualExclusion /\ C12_ResetIsWhole)
    /\ [][ResetSetsCounter => heartbeat_timeout' = 6]_vars
    /\ [][(TickShowsLost /\ reset_seen) => ticks_since_reset >= 6]_vars

\* after a reset, six ticks have run and the sixth has displayed
\* CONNECTION_LOST; the timer has released the mutex
C12_Witness ==
    /\ reset_seen
    /\ ticks_since_reset = 6
    /\ heartbeat_timeout = 0
    /\ connection_status = "CONNECTION_LOST"
    /\ timer_pc = "idle"
    /\ heartbeat_mutex = "free"

====
